---- MODULE Spec2Model ----
(***************************************************************************)
(* Model of generate_training_log.py: the static extraction of a training  *)
(* script (parse_train_py), the lookup in the YAML configuration           *)
(* (parse_yaml_config) and the run of main that composes and saves the     *)
(* snapshot.                                                               *)
(*                                                                         *)
(* Text is modelled at two grains.  A script is a sequence of source       *)
(* lines, each a record naming what the line holds (the regular            *)
(* expressions of the code only tell these kinds of line apart), with its  *)
(* indentation.  Quoted literals and the interior of a json_paths list are *)
(* sequences of one-character strings, because the code treats them        *)
(* character by character (lazy quote matching, str.strip).                *)
(*                                                                         *)
(* The syntax-tree walk is that of Python 3.8 to 3.13, where ast.Str       *)
(* exists (an alias of ast.Constant).                                      *)
(***************************************************************************)
EXTENDS Integers, Sequences, FiniteSets, TLC

VARIABLES
    pc,          \* position of main: "start", "yaml", "compose", "save", "print", "done", "crashed"
    script,      \* the training script on disk, as its statements (what the author wrote)
    file,        \* state of TRAIN_SCRIPT_PATH on disk: "missing", "unreadable", "ok"
    fs,          \* the YAML files on disk: path -> document (Missing when there is none)
    train_info,  \* main's train_info: <<>> for None / unassigned, <<info>> otherwise
    yaml_file,   \* main's yaml_file: <<>> while unassigned, <<path>> otherwise
    yaml_info,   \* main's yaml_info: <<>> while unassigned, <<info>> otherwise
    log_lines,   \* main's log_lines: <<>> while unassigned, <<report>> otherwise
    dirs,        \* directories created by os.makedirs
    written,     \* report files written: set of [path, body]
    console      \* what was printed, in order

vars == <<pc, script, file, fs, train_info, yaml_file, yaml_info, log_lines,
          dirs, written, console>>

----------------------------------------------------------------------------
(* Bounds of the explored inputs *)

MaxItems == 2        \* top-level statements of a script besides the stage lines
MaxStageLines == 2   \* TRAINING_STAGE lines at the head of a script
MaxElts == 3         \* source lines inside one json_paths list

----------------------------------------------------------------------------
(* Characters and strings (sequences of one-character strings) *)

SQ == "'"
DQ == "\""
QuoteChars == {SQ, DQ}

Str1(c) == <<c>>

RECURSIVE FirstIndex(_, _, _)
\* the least i >= from with s[i] \in set, or Len(s) + 1
FirstIndex(s, set, from) ==
    IF from > Len(s) THEN Len(s) + 1
    ELSE IF s[from] \in set THEN from
    ELSE FirstIndex(s, set, from + 1)

Prefix(s, n) == SubSeq(s, 1, n)

RECURSIVE Flatten(_)
Flatten(ss) == IF ss = <<>> THEN <<>> ELSE Head(ss) \o Flatten(Tail(ss))

\* a quoted literal of the source: its quote character and its contents
Lit(q, body) == [q |-> q, body |-> body]
NoLit == Lit(SQ, <<>>)
LitSrc(l) == <<l.q>> \o l.body \o <<l.q>>

----------------------------------------------------------------------------
(* The script: statements as written, and the text the code reads *)

\* One source line inside the brackets of a json_paths list.
\*   "str": a quoted string literal      "call": a call, f()
\*   "binop": a concatenation, a+b       "num": a number, 5
\*   "subscript": an indexing, p[0]      "name": a name, n
\*   "comment": a # line                 "blank": an empty line
Elt(kind, lit) == [kind |-> kind, lit |-> lit]
ExprKinds == {"str", "call", "binop", "num", "subscript", "name"}

\* A statement of the script.  kind is
\*   "stage"   TRAINING_STAGE = <n>          "resume"  resume_path = <lit>
\*   "cresume" # resume_path = <lit>         "config"  config_path = <lit>
\*   "root"    root_dir = <lit>              "stmt"    any other simple statement
\*   "json"    json_paths = [ <elts> ]       "bad"     text that is no Python
\*   "if"      if <cond>: <body> [else: <orelse>], cond "stage1" for
\*             TRAINING_STAGE == 1 and "other" for any other test
Stmt(kind, n, lit, elts, cond, body, orelse) ==
    [kind |-> kind, n |-> n, lit |-> lit, elts |-> elts,
     cond |-> cond, body |-> body, orelse |-> orelse]
Simple(kind, n, lit, elts) == Stmt(kind, n, lit, elts, "", <<>>, <<>>)
StageStmt(n) == Simple("stage", n, NoLit, <<>>)
ResumeStmt(l) == Simple("resume", 0, l, <<>>)
CommentedResume(l) == Simple("cresume", 0, l, <<>>)
ConfigStmt(l) == Simple("config", 0, l, <<>>)
RootStmt(l) == Simple("root", 0, l, <<>>)
OtherStmt == Simple("stmt", 0, NoLit, <<>>)
BadStmt == Simple("bad", 0, NoLit, <<>>)
JsonStmt(elts) == Simple("json", 0, NoLit, elts)
IfStmt(cond, body, orelse) == Stmt("if", 0, NoLit, <<>>, cond, body, orelse)

\* A line of the text: what it holds and its indentation (0: column 0).
Line(kind, ind, n, lit, elts) ==
    [kind |-> kind, ind |-> ind, n |-> n, lit |-> lit, elts |-> elts]

SimpleLine(st, ind) == Line(st.kind, ind, st.n, st.lit, st.elts)

IndentAll(sts, ind) == [i \in 1..Len(sts) |-> SimpleLine(sts[i], ind)]

\* the lines of one top-level statement
RenderStmt(st) ==
    IF st.kind = "if"
    THEN <<Line(IF st.cond = "stage1" THEN "if1" ELSE "ifx", 0, 0, NoLit, <<>>)>>
         \o IndentAll(st.body, 1)
         \o (IF st.orelse = <<>> THEN <<>>
             ELSE <<Line("else", 0, 0, NoLit, <<>>)>> \o IndentAll(st.orelse, 1))
    ELSE <<SimpleLine(st, 0)>>

\* the text of the script file, as f.read() returns it
Render(sts) == Flatten([i \in 1..Len(sts) |-> RenderStmt(sts[i])])

----------------------------------------------------------------------------
(* parse_train_py, steps 1 to 4: the regular expressions *)

None == <<>>
Some(x) == <<x>>

\* the least index i >= from of a line whose mark is TRUE, or
\* Len(marks) + 1: where a pattern first matches, searching from the left
FirstLine(marks, from) == FirstIndex(marks, {TRUE}, from)

\* ['"](.*?)['"] : after the opening quote, lazily up to the next quote
\* character of either kind, which is the closing quote or one inside the
\* literal
Capture(l) == Prefix(l.body, FirstIndex(l.body, QuoteChars, 1) - 1)

\* r'^TRAINING_STAGE\s*=\s*(\d+)' with re.MULTILINE: the first line that
\* starts, at column 0, with the assignment of an integer literal
StageMatch(content) ==
    LET i == FirstLine([k \in 1..Len(content) |->
                           content[k].kind = "stage" /\ content[k].ind = 0], 1)
    IN  IF i > Len(content) THEN None ELSE Some(content[i].n)

\* r'<name>\s*=\s*[\'"](.*?)[\'"]' anywhere in the text: the first line of
\* the given kind
AssignMatch(content, kind) ==
    LET i == FirstLine([k \in 1..Len(content) |-> content[k].kind = kind], 1)
    IN  IF i > Len(content) THEN None ELSE Some(Capture(content[i].lit))

\* text matched by resume_path\s*=\s*['"](.*?)['"] : an assignment of a
\* quoted literal, in code or in a comment
ResumeLike(ln) == ln.kind \in {"resume", "cresume"}

\* r'<header>.*?resume_path\s*=\s*[\'"](.*?)[\'"]' with re.DOTALL: from the
\* first occurrence of the header, the first resume_path literal after it,
\* however many lines lie between
BranchMatch(content, header) ==
    LET i == FirstLine([k \in 1..Len(content) |-> content[k].kind = header], 1)
        j == FirstLine([k \in 1..Len(content) |-> ResumeLike(content[k])], i + 1)
    IN  IF j > Len(content) THEN None ELSE Some(Capture(content[j].lit))

Stage1Label == "Stage 1 Logic (Image Gen)"
Stage2Label == "Stage 2 Logic (Text-in-Image)"
Unknown == <<"Unknown">>
DefaultRootDir == <<"./checkpoints">>
NoStage == -1      \* 'training_stage': None

\* step 4: the branch the stage selects
ResolveResume(content, stage) ==
    LET match == IF stage = 1 THEN BranchMatch(content, "if1")
                 ELSE BranchMatch(content, "else")
    IN  IF match = None
        THEN [resume_path |-> Unknown, base_ckpt_source |-> "Unknown"]
        ELSE [resume_path |-> match[1],
              base_ckpt_source |-> IF stage = 1 THEN Stage1Label ELSE Stage2Label]

----------------------------------------------------------------------------
(* parse_train_py, step 5: json_paths by the syntax tree, else by text *)

DynamicPath == <<"Dynamic Path (calculated in code)">>
NL == "\n"

IsHeaderLine(ln) == ln.kind \in {"if1", "ifx", "else"}
IsCommentLine(ln) == ln.kind = "cresume"

\* the lines of the block a header at line i opens: the run of deeper lines
\* that follows it
BlockEnd(content, i) ==
    FirstLine([k \in 1..Len(content) |-> content[k].ind <= content[i].ind], i + 1) - 1

\* ast.parse(content) raises: some text is no Python, a block holds no
\* statement (comments do not count), an else follows no if, or a line is
\* indented under no header
AstParseRaises(content) ==
    \/ \E i \in 1..Len(content) : content[i].kind = "bad"
    \/ \E i \in 1..Len(content) :
          /\ IsHeaderLine(content[i])
          /\ \A k \in (i + 1)..BlockEnd(content, i) : IsCommentLine(content[k])
    \/ \E i \in 1..Len(content) :
          /\ content[i].kind = "else"
          /\ \A h \in 1..(i - 1) :
                ~ ( /\ content[h].kind \in {"if1", "ifx"}
                    /\ content[h].ind = content[i].ind
                    /\ BlockEnd(content, h) = i - 1 )
    \/ \E i \in 1..Len(content) :
          /\ content[i].ind > 0
          /\ ~ IsCommentLine(content[i])
          /\ \A h \in 1..(i - 1) :
                ~ (IsHeaderLine(content[h]) /\ i <= BlockEnd(content, h))

\* the lines of kind "json" at indentation ind, in the order of the text
RECURSIVE JsonAt(_, _)
JsonAt(content, ind) ==
    IF content = <<>> THEN <<>>
    ELSE (IF Head(content).kind = "json" /\ Head(content).ind = ind
          THEN <<Head(content)>> ELSE <<>>) \o JsonAt(Tail(content), ind)

MaxInd(content) ==
    IF content = <<>> THEN 0
    ELSE CHOOSE m \in {content[i].ind : i \in 1..Len(content)} :
             \A i \in 1..Len(content) : content[i].ind <= m

\* ast.walk is breadth first: the assignments of the module's own body come
\* first, then those one block deeper, and so on; within one depth they
\* come in the order of the text
AstWalkJson(content) ==
    Flatten([d \in 1..(MaxInd(content) + 1) |-> JsonAt(content, d - 1)])

\* what the loop over node.value.elts appends for one element: a constant's
\* value (a string's contents, a number), the sentinel for a call, and
\* nothing for any other expression
AppendForElt(e) ==
    IF e.kind = "str" THEN <<e.lit.body>>
    ELSE IF e.kind = "num" THEN <<Str1("5")>>
    ELSE IF e.kind = "call" THEN <<DynamicPath>>
    ELSE <<>>

\* the elements of the list node: the expressions, not the comments or the
\* blank lines
AstElts(elts) == SelectSeq(elts, LAMBDA e : e.kind \in ExprKinds)

ExtractElts(elts) ==
    LET es == AstElts(elts)
    IN  Flatten([i \in 1..Len(es) |-> AppendForElt(es[i])])

AstJsonPaths(content) ==
    LET nodes == AstWalkJson(content)
    IN  Flatten([i \in 1..Len(nodes) |-> ExtractElts(nodes[i].elts)])

\* the source text of one element
EltSrc(e) ==
    CASE e.kind = "str" -> LitSrc(e.lit)
      [] e.kind = "call" -> <<"f", "(", ")">>
      [] e.kind = "binop" -> <<"a", "+", "b">>
      [] e.kind = "num" -> <<"5">>
      [] e.kind = "subscript" -> <<"p", "[", "0", "]">>
      [] e.kind = "name" -> <<"n">>
      [] e.kind = "comment" -> <<"#", " ", "c">>
      [] OTHER -> <<>>

\* the line of the file holding one element: indented, an expression
\* followed by a comma
EltLine(e) ==
    IF e.kind = "blank" THEN <<>>
    ELSE <<" ", " ">> \o EltSrc(e) \o (IF e.kind \in ExprKinds THEN <<",">> ELSE <<>>)

\* the text from the "[" of a json_paths assignment on: a line break, one
\* line per element, and the closing bracket
ListText(elts) ==
    <<NL>> \o Flatten([i \in 1..Len(elts) |-> EltLine(elts[i]) \o <<NL>>]) \o <<"]">>

\* group(1) of r'json_paths\s*=\s*\[(.*?)\]' with re.DOTALL: lazily up to
\* the first "]"
JsonBlock(elts) ==
    LET text == ListText(elts)
    IN  Prefix(text, FirstIndex(text, {"]"}, 1) - 1)

\* str.split('\n')
RECURSIVE Split(_)
Split(s) ==
    LET i == FirstIndex(s, {NL}, 1)
    IN  IF i > Len(s) THEN <<s>>
        ELSE <<Prefix(s, i - 1)>> \o Split(SubSeq(s, i + 1, Len(s)))

\* str.strip(chars): drop the leading and the trailing characters in chars
RECURSIVE LStrip(_, _)
LStrip(s, chars) ==
    IF s # <<>> /\ Head(s) \in chars THEN LStrip(Tail(s), chars) ELSE s
RECURSIVE RStrip(_, _)
RStrip(s, chars) ==
    IF s # <<>> /\ s[Len(s)] \in chars THEN RStrip(Prefix(s, Len(s) - 1), chars) ELSE s
Strip(s, chars) == RStrip(LStrip(s, chars), chars)

Whitespace == {" ", NL}
CleanChars == {"'", ",", " "}      \* line.strip("', ")

\* what the fallback loop appends for one line of the block
AppendForLine(ln) ==
    LET line == Strip(ln, Whitespace)
        clean_path == Strip(line, CleanChars)
    IN  IF line # <<>> /\ Head(line) # "#" /\ clean_path # <<>>
        THEN <<clean_path>> ELSE <<>>

\* the except branch: the first json_paths = [ ... ] of the text, line by line
FallbackJsonPaths(content) ==
    LET i == FirstLine([k \in 1..Len(content) |-> content[k].kind = "json"], 1)
    IN  IF i > Len(content) THEN <<>>
        ELSE LET lines == Split(JsonBlock(content[i].elts))
             IN  Flatten([k \in 1..Len(lines) |-> AppendForLine(lines[k])])

JsonPaths(content) ==
    IF AstParseRaises(content) THEN FallbackJsonPaths(content)
    ELSE AstJsonPaths(content)

----------------------------------------------------------------------------
(* parse_train_py as a whole *)

\* the info dictionary parse_train_py returns for a script it could read
TrainInfo(content) ==
    LET stage_match == StageMatch(content)
        training_stage == IF stage_match = None THEN NoStage ELSE stage_match[1]
        root_match == AssignMatch(content, "root")
        resume == ResolveResume(content, training_stage)
    IN  [training_stage |-> training_stage,
         resume_path |-> resume.resume_path,
         config_path |-> AssignMatch(content, "config"),
         root_dir |-> IF root_match = None THEN DefaultRootDir ELSE root_match[1],
         json_paths |-> JsonPaths(content),
         base_ckpt_source |-> resume.base_ckpt_source]

\* parse_train_py without the test of os.path.exists: open raises for a
\* file that is not there
ParseOutcomeNoExistsTest(f) ==
    IF f \in {"missing", "unreadable"} THEN "raise" ELSE "info"

\* how the call parse_train_py(TRAIN_SCRIPT_PATH) ends for a file in state f:
\* "none" (os.path.exists is false), "raise" (open or read raises: nothing
\* in the function catches it), "info"
ParseOutcome(f) ==
    IF f = "missing" THEN "none"
    ELSE IF f = "unreadable" THEN "raise"
    ELSE "info"

----------------------------------------------------------------------------
(* parse_yaml_config *)

\* A YAML file.  top is "missing" (no file), "unreadable" (open raises),
\* "malformed" (safe_load raises), or the kind of the loaded document:
\* "null", "scalar", "list", "map".  Below the top, each looked-up key is
\* "absent" or names the kind of its value; a key under a value that is no
\* mapping is "absent".  inj and ucs are leaves: ucs is "true", "false" or
\* "null".
Doc(top, model, params, inj, emb, embparams, ucs) ==
    [top |-> top, model |-> model, params |-> params, inj |-> inj,
     emb |-> emb, embparams |-> embparams, ucs |-> ucs]

Missing == Doc("missing", "absent", "absent", "absent", "absent", "absent", "absent")

\* d[key] in place of d.get(key, {}): an absent key raises
HasGetNoDefault(kind) == kind = "map"

\* d.get(key, {}) followed by a .get on the result: the result is the
\* default {} for an absent key and the value otherwise, and only a mapping
\* has .get
HasGet(kind) == kind \in {"map", "absent"}

\* the value info['injection'] takes from params.get(..., 'Not Set')
InjectionOf(doc) ==
    CASE doc.inj = "absent" -> "Not Set"
      [] doc.inj = "null" -> "None"
      [] doc.inj = "scalar" -> "concat"
      [] OTHER -> "{mode: concat}"

\* the value info['use_calligraphy'] takes from emb_conf.get(..., False)
UseCalligraphyOf(doc) ==
    CASE doc.ucs = "absent" -> "False"
      [] doc.ucs = "null" -> "None"
      [] doc.ucs = "true" -> "True"
      [] OTHER -> "False"

\* lines 112-115 raise: open, yaml.safe_load, config.get or .get('params')
RaisesBeforeInjection(doc) ==
    \/ doc.top # "map"
    \/ ~ HasGet(doc.model)

\* line 118 raises: params has no .get
RaisesAtInjection(doc) == ~ HasGet(doc.params)

\* lines 121-122 raise: after info['injection'] was assigned
RaisesAfterInjection(doc) ==
    \/ ~ HasGet(doc.emb)
    \/ ~ HasGet(doc.embparams)

YamlInfo(injection, use_calligraphy) ==
    [injection |-> injection, use_calligraphy |-> use_calligraphy]

\* the info dictionary parse_yaml_config returns
ParseYamlConfig(doc) ==
    IF doc.top = "missing" THEN YamlInfo("Unknown", "Unknown")
    ELSE IF RaisesBeforeInjection(doc) \/ RaisesAtInjection(doc)
         THEN YamlInfo("Unknown", "Unknown")
    ELSE IF RaisesAfterInjection(doc)
         THEN YamlInfo(InjectionOf(doc), "Unknown")
    ELSE YamlInfo(InjectionOf(doc), UseCalligraphyOf(doc))

\* what parse_yaml_config prints
YamlDiagnostic(doc) ==
    IF doc.top = "missing" THEN <<"yaml file not found">>
    ELSE IF RaisesBeforeInjection(doc) \/ RaisesAtInjection(doc)
            \/ RaisesAfterInjection(doc)
         THEN <<"yaml parse failed">>
    ELSE <<>>

DEFAULT_YAML_PATH == <<"./models_yaml/anytext2_sd15.yaml">>

\* os.path.exists / open on a path: the file there, if any
FileAt(files, path) == IF path \in DOMAIN files THEN files[path] ELSE Missing

\* train_info.get('config_path') or DEFAULT_YAML_PATH: None and the empty
\* string are both falsy
YamlFileOf(info) ==
    IF info.config_path = None \/ info.config_path[1] = <<>>
    THEN DEFAULT_YAML_PATH ELSE info.config_path[1]

----------------------------------------------------------------------------
(* main *)

NoDatasetWarning == <<"no dataset path detected">>

\* the part of log_lines that depends on the extraction (lines 152-175)
Report(info, yinfo, yfile) ==
    [stage |-> info.training_stage,
     calligraphy |-> yinfo.use_calligraphy,
     resume |-> info.resume_path,
     source |-> info.base_ckpt_source,
     injection |-> IF yinfo.injection = "{mode: concat}"
                   THEN <<"mode      : concat">>
                   ELSE <<yinfo.injection>>,
     datasets |-> IF info.json_paths = <<>> THEN <<NoDatasetWarning>>
                  ELSE info.json_paths,
     yaml_file |-> yfile]

\* os.path.join(train_info['root_dir'], 'manual_logs')
SaveDir(info) == info.root_dir \o <<"/manual_logs">>

\* lines 130-135: the call of parse_train_py and the test of its result
ParseTrainPy ==
    /\ pc = "start"
    /\ LET outcome == ParseOutcome(file)
       IN  CASE outcome = "none" ->
                  /\ train_info' = None
                  /\ console' = console \o <<"reading", "script not found">>
                  /\ pc' = "done"
             [] outcome = "raise" ->
                  /\ train_info' = None
                  /\ console' = console \o <<"reading", "traceback">>
                  /\ pc' = "crashed"
             [] OTHER ->
                  /\ train_info' = Some(TrainInfo(Render(script)))
                  /\ console' = console \o <<"reading">>
                        \o (IF AstParseRaises(Render(script))
                            THEN <<"ast failed, trying the pattern">> ELSE <<>>)
                  /\ pc' = "yaml"
    /\ UNCHANGED <<script, file, fs, yaml_file, yaml_info, log_lines, dirs, written>>

\* lines 138-139
ResolveConfig ==
    /\ pc = "yaml"
    /\ LET path == YamlFileOf(train_info[1])
           doc == FileAt(fs, path)
       IN  /\ yaml_file' = Some(path)
           /\ yaml_info' = Some(ParseYamlConfig(doc))
           /\ console' = console \o YamlDiagnostic(doc)
    /\ pc' = "compose"
    /\ UNCHANGED <<script, file, fs, train_info, log_lines, dirs, written>>

\* lines 142-175
ComposeReport ==
    /\ pc = "compose"
    /\ log_lines' = Some(Report(train_info[1], yaml_info[1], yaml_file[1]))
    /\ pc' = "save"
    /\ UNCHANGED <<script, file, fs, train_info, yaml_file, yaml_info, dirs,
                   written, console>>

\* lines 178-185
SaveLog ==
    /\ pc = "save"
    /\ dirs' = dirs \cup {SaveDir(train_info[1])}
    /\ written' = written \cup
          {[dir |-> SaveDir(train_info[1]),
            stage |-> train_info[1].training_stage,
            body |-> log_lines[1]]}
    /\ pc' = "print"
    /\ UNCHANGED <<script, file, fs, train_info, yaml_file, yaml_info, log_lines,
                   console>>

\* lines 188-189
PrintReport ==
    /\ pc = "print"
    /\ console' = console \o <<"report body", "log file written">>
    /\ pc' = "done"
    /\ UNCHANGED <<script, file, fs, train_info, yaml_file, yaml_info, log_lines,
                   dirs, written>>

Next ==
    \/ ParseTrainPy
    \/ ResolveConfig
    \/ ComposeReport
    \/ SaveLog
    \/ PrintReport

----------------------------------------------------------------------------
(* Inputs *)

\* A one-character string with a long name stands for a run of ordinary
\* characters: no quote, comma, space, bracket, "#" or line break.
LitA == Lit(SQ, <<"A.ckpt">>)          \* the stage-1 checkpoint
LitB == Lit(SQ, <<"B.ckpt">>)          \* the stage-2 checkpoint
LitX == Lit(SQ, <<"X.ckpt">>)          \* some other checkpoint
LitQ == Lit(DQ, <<"Q", SQ, "s.ckpt">>) \* "Q's.ckpt"
CfgPath == <<"cfg.yaml">>
OutDir == <<"/out">>

\* sequences over S of length at most n
SeqsUpTo(S, n) == UNION {[1..k -> S] : k \in 0..n}

StartState ==
    /\ pc = "start"
    /\ train_info = None
    /\ yaml_file = None
    /\ yaml_info = None
    /\ log_lines = None
    /\ dirs = {}
    /\ written = {}
    /\ console = <<>>

NoYaml == [p \in {CfgPath, DEFAULT_YAML_PATH} |-> Missing]


\* ---- scripts exercising the stage and the resume path

StagePrefixes == SeqsUpTo({StageStmt(1), StageStmt(2)}, MaxStageLines)

LeadStmts == {OtherStmt, CommentedResume(LitX)}
BranchAssigns == {ResumeStmt(LitA), ResumeStmt(LitB)}

\* the blocks of an if statement: one statement, or a statement or a
\* commented-out assignment followed by an assignment (a block of comments
\* alone is no Python)
Bodies ==
    {<<s>> : s \in {OtherStmt} \cup BranchAssigns}
    \cup {<<s, t>> : s \in LeadStmts, t \in BranchAssigns}

IfStmts ==
    {IfStmt(c, b, e) : c \in {"stage1", "other"}, b \in Bodies, e \in Bodies \cup {<<>>}}

ResumeItems == IfStmts \cup {ResumeStmt(LitX), ResumeStmt(LitQ)}

ResumeScripts ==
    {p \o s : p \in StagePrefixes, s \in SeqsUpTo(ResumeItems, MaxItems)}

\* ---- scripts exercising json_paths

StrA == Elt("str", Lit(SQ, <<"a.json">>))        \* 'a.json'
StrB == Elt("str", Lit(DQ, <<"b.json">>))        \* "b.json"
StrC == Elt("str", Lit(SQ, <<"c.json", " ">>))   \* 'c.json '
ListElts ==
    {StrA, StrB, StrC} \cup
    {Elt(k, NoLit) : k \in {"call", "binop", "num", "subscript", "name",
                            "comment", "blank"}}

\* a json_paths assignment at the top level, or inside an if block
Placed(elts, nested) ==
    IF nested THEN IfStmt("other", <<JsonStmt(elts)>>, <<>>) ELSE JsonStmt(elts)

Broken(bad) == IF bad THEN <<BadStmt>> ELSE <<>>

ShortLists == {<<>>, <<StrA>>, <<StrB>>, <<StrA, StrA>>}

ListScripts ==
    {Broken(bad) \o <<Placed(elts, nested)>> :
        bad \in BOOLEAN, nested \in BOOLEAN, elts \in SeqsUpTo(ListElts, MaxElts)}
    \cup
    {Broken(bad) \o <<Placed(e1, n1), Placed(e2, n2)>> :
        bad \in BOOLEAN, n1 \in BOOLEAN, n2 \in BOOLEAN,
        e1 \in ShortLists, e2 \in ShortLists}

\* ---- YAML files

NodeKinds == {"absent", "null", "scalar", "map"}

Docs ==
    {d \in [top : {"unreadable", "malformed", "null", "scalar", "list", "map"},
            model : NodeKinds, params : NodeKinds, inj : NodeKinds,
            emb : NodeKinds, embparams : NodeKinds,
            ucs : {"absent", "null", "true", "false"}] :
        /\ d.top # "map" => d.model = "absent"
        /\ d.model # "map" => d.params = "absent"
        /\ d.params # "map" => d.inj = "absent" /\ d.emb = "absent"
        /\ d.emb # "map" => d.embparams = "absent"
        /\ d.embparams # "map" => d.ucs = "absent"}

\* the document of the end-to-end scenario: an injection mapping and no
\* embedding manager
ScenarioDoc == Doc("map", "map", "map", "map", "absent", "absent", "absent")

\* one file on disk, at either path, or none
OneYaml(docs) ==
    {[p \in {CfgPath, DEFAULT_YAML_PATH} |-> IF p = q THEN d ELSE Missing] :
        q \in {CfgPath, DEFAULT_YAML_PATH}, d \in docs \cup {Missing}}

\* ---- whole scripts

StageBranch == IfStmt("stage1", <<ResumeStmt(LitA)>>, <<ResumeStmt(LitB)>>)

\* the script of the end-to-end scenario, and variations of it
ScenarioScript(stage, config, root, elts) ==
    stage \o config \o root \o <<StageBranch, Placed(elts, TRUE)>>

ConfigLines == {<<>>, <<ConfigStmt(Lit(SQ, CfgPath))>>, <<ConfigStmt(Lit(SQ, <<>>))>>}
RootLines == {<<>>, <<RootStmt(Lit(SQ, OutDir))>>}

SampleScripts ==
    {ScenarioScript(s, c, r, e) :
        s \in {<<>>, <<StageStmt(1)>>, <<StageStmt(2)>>},
        c \in ConfigLines, r \in RootLines, e \in {<<>>, <<StrA, StrB>>}}

----------------------------------------------------------------------------
(* Specifications *)

\* runs of main over the states of the script file and of the YAML files
Init ==
    /\ StartState
    /\ file \in {"missing", "unreadable", "ok"}
    /\ script \in IF file = "missing" THEN {<<>>} ELSE SampleScripts
    /\ fs \in OneYaml({ScenarioDoc, Doc("malformed", "absent", "absent", "absent",
                                        "absent", "absent", "absent")})

Spec == Init /\ [][Next]_vars

\* runs over scripts that vary the stage lines and the branches
InitResume ==
    /\ StartState
    /\ file = "ok"
    /\ script \in ResumeScripts
    /\ fs = NoYaml

SpecResume == InitResume /\ [][Next]_vars

\* runs over scripts that vary the json_paths lists
InitList ==
    /\ StartState
    /\ file = "ok"
    /\ script \in ListScripts
    /\ fs = NoYaml

SpecList == InitList /\ [][Next]_vars

\* runs over the YAML documents
InitYaml ==
    /\ StartState
    /\ file = "ok"
    /\ script \in {ScenarioScript(<<StageStmt(2)>>, c, <<>>, <<StrA>>) : c \in ConfigLines}
    /\ fs \in OneYaml(Docs)

SpecYaml == InitYaml /\ [][Next]_vars

----------------------------------------------------------------------------
(* What the script says, read from its statements (not from its text) *)

Extracted == train_info # None
Info == train_info[1]
Content == Render(script)

\* the statements of the script that branch on TRAINING_STAGE == 1
StageIfs == {i \in 1..Len(script) : script[i].kind = "if" /\ script[i].cond = "stage1"}

\* the assignments of resume_path a block makes
Assigns(block) == SelectSeq(block, LAMBDA s : s.kind = "resume")
HasAssign(block) == Assigns(block) # <<>>
\* the value the block leaves in resume_path: that of its last assignment
Assigned(block) == Assigns(block)[Len(Assigns(block))].lit.body

\* a well-formed stage branch: the if block assigns a literal A, the else
\* block a different literal B
WellFormed(st) ==
    /\ HasAssign(st.body)
    /\ HasAssign(st.orelse)
    /\ Assigned(st.body) # Assigned(st.orelse)

WellFormedIfs == {i \in StageIfs : WellFormed(script[i])}

\* the json_paths assignments of the script, in the order of the text
JsonLines == SelectSeq(Content, LAMBDA ln : ln.kind = "json")

----------------------------------------------------------------------------
(* Claims on the branch resolver *)

\* C1: when the stage is 1 and the script holds a well-formed stage-1
\* branch assigning A (every such branch of the script assigning the same
\* A), parse_train_py returns resume_path = A with the stage-1 label,
\* whatever other resume_path literals the file holds.
C1_Stage1BranchLiteral ==
    (Extracted /\ Info.training_stage = 1) =>
        \A i \in WellFormedIfs :
            (\A j \in WellFormedIfs :
                Assigned(script[j].body) = Assigned(script[i].body))
            => /\ Info.resume_path = Assigned(script[i].body)
               /\ Info.base_ckpt_source = Stage1Label

\* C2: when the stage is absent or not 1 and the script holds a stage
\* branch whose else block assigns B (every such branch assigning the same
\* B), parse_train_py returns resume_path = B with the stage-2 label.
C2_ElseBranchLiteral ==
    (Extracted /\ Info.training_stage # 1) =>
        \A i \in StageIfs :
            ( /\ HasAssign(script[i].orelse)
              /\ \A j \in StageIfs :
                    HasAssign(script[j].orelse) =>
                        Assigned(script[j].orelse) = Assigned(script[i].orelse) )
            => /\ Info.resume_path = Assigned(script[i].orelse)
               /\ Info.base_ckpt_source = Stage2Label

\* C10: when the stage is 1 and the one stage branch of the script assigns
\* no resume_path in its if block while its else block assigns B,
\* parse_train_py does not report B as the resume path under the stage-1
\* label (resume_path and the label stay "Unknown").
C10_NoAssignmentStaysUnknown ==
    (Extracted /\ Info.training_stage = 1 /\ Cardinality(StageIfs) = 1) =>
        \A i \in StageIfs :
            (~ HasAssign(script[i].body) /\ HasAssign(script[i].orelse))
            => ~ ( /\ Info.resume_path = Assigned(script[i].orelse)
                   /\ Info.base_ckpt_source = Stage1Label )

----------------------------------------------------------------------------
(* Claims on the list extractor *)

\* what the specification asks of one element: a string literal verbatim,
\* the sentinel for any other expression
ExpectedForElt(e) == IF e.kind = "str" THEN e.lit.body ELSE DynamicPath

\* C3: for a script that parses and holds a single json_paths list of n
\* elements, json_paths has n entries in the order of the list, a string
\* literal verbatim and the sentinel for any other expression.
C3_OneEntryPerElement ==
    (Extracted /\ ~ AstParseRaises(Content) /\ Len(JsonLines) = 1) =>
        LET es == AstElts(JsonLines[1].elts)
        IN  Info.json_paths = [i \in 1..Len(es) |-> ExpectedForElt(es[i])]

\* contents the strip of the fallback leaves whole: no quote, comma or
\* space at either end
Plain(body) ==
    body # <<>> /\ Head(body) \notin CleanChars /\ body[Len(body)] \notin CleanChars

\* the items of a list are quoted string literals, one per line, with
\* comment lines and blank lines between them
LiteralItems(elts) ==
    \A i \in 1..Len(elts) :
        \/ elts[i].kind \in {"comment", "blank"}
        \/ elts[i].kind = "str" /\ Plain(elts[i].lit.body)

\* C4: when the script does not parse, for a json_paths list of single- or
\* double-quoted literals, one per line, json_paths is the sequence of the
\* literals' contents.
C4_FallbackRecoversLiterals ==
    ( /\ Extracted
      /\ \E i \in 1..Len(script) : script[i].kind = "bad"
      /\ Len(JsonLines) = 1
      /\ LiteralItems(JsonLines[1].elts) ) =>
        LET es == AstElts(JsonLines[1].elts)
        IN  Info.json_paths = [i \in 1..Len(es) |-> es[i].lit.body]

\* C5: for a script that parses, the entries of json_paths come in the
\* order of the source text, assignment after assignment, duplicates kept.
C5_SourceOrder ==
    (Extracted /\ ~ AstParseRaises(Content)) =>
        Info.json_paths =
            Flatten([i \in 1..Len(JsonLines) |-> ExtractElts(JsonLines[i].elts)])

----------------------------------------------------------------------------
(* Claims on the run of main and on the config resolver *)

Printed(what) == \E i \in 1..Len(console) : console[i] = what

\* C6: when the script file does not exist, parse_train_py returns None
\* after printing a diagnostic and main stops there: it reads no YAML file,
\* creates no directory, writes no report and prints no report body.  And a
\* report file is written only after the extraction produced an info.
C6_MissingScriptAborts ==
    /\ (file = "missing" /\ pc # "start") =>
          /\ pc = "done"
          /\ train_info = None
          /\ Printed("script not found")
          /\ yaml_file = None
          /\ yaml_info = None
          /\ log_lines = None
          /\ dirs = {}
          /\ written = {}
          /\ ~ Printed("report body")
    /\ (written # {} => Extracted /\ file = "ok")

\* the run of a missing script has ended
C6_Witness ==
    /\ file = "missing"
    /\ pc = "done"
    /\ console = <<"reading", "script not found">>

\* C7: when the script file exists but cannot be read, parse_train_py does
\* not raise: it returns an info with json_paths empty, and the run does
\* not crash.
C7_UnreadableScriptAbsorbed ==
    (file = "unreadable" /\ pc # "start") =>
        /\ pc # "crashed"
        /\ Extracted
        /\ Info.json_paths = <<>>

\* the YAML file main resolved
UsedDoc == FileAt(fs, yaml_file[1])

\* every lookup of parse_yaml_config can be made: the document is a mapping
\* and each key on the way is absent or holds a mapping
Navigable(doc) ==
    /\ doc.top = "map"
    /\ \A k \in {doc.model, doc.params, doc.emb, doc.embparams} :
          k \in {"absent", "map"}

\* C8: when the document cannot be processed (no file, or an error while
\* loading or navigating it), both fields are "Unknown" and main goes on.
C8_FailureDegradesBoth ==
    (yaml_info # None /\ ~ Navigable(UsedDoc)) =>
        /\ yaml_info[1].injection = "Unknown"
        /\ yaml_info[1].use_calligraphy = "Unknown"
        /\ pc \in {"compose", "save", "print", "done"}

\* C9: for a parsed document whose top level is a mapping, with each key of
\* the lookups absent or holding a mapping, no error is raised: injection
\* is the value of context_injection_config, or "Not Set" when the key is
\* not there, and use_calligraphy the value of use_calligraphy_style, or
\* the boolean False when the key is not there.
C9_AbsentKeysDefault ==
    (yaml_info # None /\ Navigable(UsedDoc)) =>
        /\ ~ Printed("yaml parse failed")
        /\ yaml_info[1].injection =
              ( CASE UsedDoc.inj = "absent" -> "Not Set"
                  [] UsedDoc.inj = "null" -> "None"
                  [] UsedDoc.inj = "scalar" -> "concat"
                  [] UsedDoc.inj = "map" -> "{mode: concat}" )
        /\ yaml_info[1].use_calligraphy =
              ( CASE UsedDoc.ucs \in {"absent", "false"} -> "False"
                  [] UsedDoc.ucs = "true" -> "True"
                  [] UsedDoc.ucs = "null" -> "None" )

\* the document of the scenario was resolved: an injection mapping, no
\* embedding manager, and the run ended
C9_Witness ==
    /\ pc = "done"
    /\ yaml_info # None
    /\ UsedDoc = ScenarioDoc
    /\ yaml_info[1] = YamlInfo("{mode: concat}", "False")

====
